---- MODULE Spec2Model ----
(***************************************************************************)
(* ruin: a wallpaper daemon that recolors an artwork according to the      *)
(* battery state.  The module models src/main.rs: the recolor/composite    *)
(* function `create` and the change-detection loop of `main`.              *)
(***************************************************************************)
EXTENDS Integers, Sequences, FiniteSets, TLC

VARIABLES pc, image, color_scheme, previous, battery, rendered, wallpaper,
          result, polls, renders, applies, sleeps

vars == <<pc, image, color_scheme, previous, battery, rendered, wallpaper,
          result, polls, renders, applies, sleeps>>

(***************************************************************************)
(* Bounds of the model.                                                    *)
(***************************************************************************)
\* largest width of a base image drawn by InitCreate with every choice of
\* pixels
MaxW == 1
\* largest height of a base image drawn by InitCreate with every choice of
\* pixels
MaxH == 3
\* number of polls after which the modelled loop stops polling
MaxPolls == 6

(***************************************************************************)
(* Program constants.                                                      *)
(***************************************************************************)
\* width of the canvas: ImageBuffer::new(3840, 2160)
CanvasW == 3840
\* height of the canvas
CanvasH == 2160
\* `_ if capacity >= 30_u8`
LowBatteryLimit == 30
\* thread::sleep default: args.time.unwrap_or(5)
DefaultTime == 5
\* f32 has a 24 bit significand
F32Digits == 24

\* Rgba([143, 188, 187, 255]): the accent color that marks the gauge
SentinelPixel == <<143, 188, 187, 255>>

(***************************************************************************)
(* Battery snapshots.  battery.rs is not part of the sources at hand: the  *)
(* snapshot is the record main.rs builds, with the two statuses main.rs    *)
(* names; its comparison and the values a reading can take follow the data *)
(* model of the specification.                                             *)
(***************************************************************************)
BatteryStatus == {"Charging", "NotCharging"}

Battery(capacity, status) == [capacity |-> capacity, status |-> status]

\* derived value equality of two snapshots (`battery != previous`)
BatteryNe(a, b) == a.capacity # b.capacity \/ a.status # b.status

\* the snapshots Battery::new may return to the loop
LoopBatteries ==
    { Battery(0, "NotCharging"), Battery(0, "Charging"),
      Battery(29, "NotCharging"), Battery(80, "NotCharging") }

\* the capacities `create` is applied to
Capacities == {0, 1, 9, 29, 30, 33, 50, 60, 80, 99, 100}

CreateBatteries == { Battery(c, s) : c \in Capacities, s \in BatteryStatus }

(***************************************************************************)
(* Colors                                                                  *)
(***************************************************************************)
\* impl Default for Colors
DefaultColors ==
    [charging |-> <<255, 255, 0>>, default |-> <<91, 194, 54>>,
     low_battery |-> <<191, 19, 28>>, background |-> <<40, 40, 40>>]

\* a scheme read from colorschemes.yaml; its background is the accent RGB
CustomColors ==
    [charging |-> <<1, 2, 3>>, default |-> <<4, 5, 6>>,
     low_battery |-> <<7, 8, 9>>, background |-> <<143, 188, 187>>]

\* get_colorscheme(..).unwrap_or_default()
ColorSchemes == {DefaultColors, CustomColors}

(***************************************************************************)
(* f32 arithmetic.  A non-negative f32 is [m, e], the value m / 2^e, with  *)
(* m <= 2^24.  Every operation rounds to nearest, ties to even.            *)
(***************************************************************************)
F32Max == 2 ^ F32Digits

RECURSIVE ShiftFor(_, _)
\* the number of low bits n has beyond the significand
ShiftFor(n, s) == IF n \div (2 ^ s) < F32Max THEN s ELSE ShiftFor(n, s + 1)

\* round n / 2^e to the nearest f32
F32Round(n, e) ==
    LET s    == ShiftFor(n, 0)
        kept == n \div (2 ^ s)
        rem  == n % (2 ^ s)
        half == IF s = 0 THEN 0 ELSE 2 ^ (s - 1)
        up   == s > 0 /\ (rem > half \/ (rem = half /\ kept % 2 = 1))
    IN [m |-> IF up THEN kept + 1 ELSE kept, e |-> e - s]

RECURSIVE DivExp(_, _, _)
\* the least exponent from e on that puts the quotient a / b in [2^23, 2^24)
DivExp(a, b, e) ==
    IF a * (2 ^ e) >= (F32Max \div 2) * b THEN e ELSE DivExp(a, b, e + 1)

\* a as f32 / b as f32 for a u8 a and a small integer b > 0; a quotient
\* below 1 has an exponent above 23
F32DivInt(a, b) ==
    IF a = 0 THEN [m |-> 0, e |-> 0]
    ELSE LET e    == DivExp(a, b, IF a < b THEN F32Digits - 1 ELSE 0)
             num  == a * (2 ^ e)
             quot == num \div b
             rem  == num % b
             up   == 2 * rem > b \/ (2 * rem = b /\ quot % 2 = 1)
         IN F32Round(IF up THEN quot + 1 ELSE quot, e)

\* 1.0 - q for an f32 q in [0, 1]
F32OneMinus(q) == F32Round((2 ^ q.e) - q.m, q.e)

\* (n as f32) * r for an integer n below 2^24 (`n as f32` is exact)
F32MulInt(n, r) == F32Round(n * r.m, r.e)

\* (y as f32) > t for an integer y below 2^24
F32IntGt(y, t) == y > t.m \div (2 ^ t.e)

(***************************************************************************)
(* Images.  A base image is [width, height, pix] with RGBA pixels; an RGB  *)
(* buffer is [width, height, pix, rest]: pix holds the pixels written      *)
(* individually, rest the value of every other pixel of the buffer.        *)
(***************************************************************************)
Coords(width, height) == (0 .. width - 1) \X (0 .. height - 1)

\* the pixel values base images are made of
PixelKinds ==
    << SentinelPixel, <<143, 188, 187, 254>>, <<143, 188, 186, 255>>,
       <<0, 0, 0, 0>> >>

\* the image whose row y starts with kind rows[y + 1], the kinds following
\* each other cyclically along the row
ImageOf(width, height, rows) ==
    [width |-> width, height |-> height,
     pix |-> [p \in Coords(width, height) |->
                 PixelKinds[((rows[p[2] + 1] + p[1]) % Len(PixelKinds)) + 1]]]

\* every image of the bounded sizes
SmallImages ==
    UNION { { ImageOf(w, h, rows) : rows \in [1 .. h -> 0 .. Len(PixelKinds) - 1] } :
            w \in 0 .. MaxW, h \in 0 .. MaxH }

\* the heights of the taller images
GaugeHeights == {5, 20, 100}

\* taller artwork: a column of the accent color, and a column that goes
\* through the pixel kinds row by row
GaugeImages ==
    { ImageOf(1, h, [i \in 1 .. h |-> 0]) : h \in GaugeHeights }
       \cup { ImageOf(1, h, [i \in 1 .. h |-> i % Len(PixelKinds)]) : h \in GaugeHeights }

\* the decoded base images (image::open / get_image)
Images == SmallImages \cup GaugeImages

\* GenericImageView::get_pixel of an RGB buffer
GetPixel(buf, x, y) ==
    IF <<x, y>> \in DOMAIN buf.pix THEN buf.pix[<<x, y>>] ELSE buf.rest

\* no buffer yet
NoBuffer == [width |-> 0, height |-> 0, pix |-> <<>>, rest |-> <<0, 0, 0>>]

\* Pixel::to_rgb of an RGBA pixel
to_rgb(pixel) == <<pixel[1], pixel[2], pixel[3]>>

(***************************************************************************)
(* create: recolor the base image and composite it on the canvas.          *)
(***************************************************************************)
\* SelectColor with `capacity > 30` for `capacity >= 30`
SelectColor_Mut(status, capacity, colors) ==
    IF status = "Charging" THEN colors.charging
    ELSE IF capacity > LowBatteryLimit THEN colors.default
    ELSE colors.low_battery

\* the `match status` of create: the color of the gauge
SelectColor(status, capacity, colors) ==
    IF status = "Charging" THEN colors.charging
    ELSE IF capacity >= LowBatteryLimit THEN colors.default
    ELSE colors.low_battery

\* FillFraction without the `1.0 -`
FillFraction_Mut(capacity) == F32DivInt(capacity, 100)

\* `1.0 - capacity as f32 / 100.0`
FillFraction(capacity) == F32OneMinus(F32DivInt(capacity, 100))

\* `height as f32 * capacity`, the threshold row of the gauge
Threshold(height, capacity) == F32MulInt(height, FillFraction(capacity))

\* Classify with the accent color matched on RGB alone
Classify_RgbOnly(pixel, y, threshold, color, background) ==
    IF to_rgb(pixel) = to_rgb(SentinelPixel) /\ F32IntGt(y, threshold) THEN color
    ELSE IF pixel[4] < 255 THEN background
    ELSE to_rgb(pixel)

\* Classify with `alpha <= 255` for `alpha < 255`
Classify_AlphaLe(pixel, y, threshold, color, background) ==
    IF pixel = SentinelPixel /\ F32IntGt(y, threshold) THEN color
    ELSE IF pixel[4] <= 255 THEN background
    ELSE to_rgb(pixel)

\* the `match pixel` of create: the output value of one base pixel in row
\* y, the first arm guarded by `y as f32 > height as f32 * capacity`
Classify(pixel, y, threshold, color, background) ==
    IF pixel = SentinelPixel /\ F32IntGt(y, threshold) THEN color
    ELSE IF pixel[4] < 255 THEN background
    ELSE to_rgb(pixel)

\* the recolored `output` image of create
Output(bat, colors, img) ==
    LET color == SelectColor(bat.status, bat.capacity, colors)
        threshold == Threshold(img.height, bat.capacity)
    IN [width |-> img.width, height |-> img.height,
        pix |-> [p \in Coords(img.width, img.height) |->
                    Classify(img.pix[p], p[2], threshold, color, colors.background)],
        rest |-> <<0, 0, 0>>]

\* ImageBuffer::new(w, h) with every pixel set to color
Filled(w, h, color) == [width |-> w, height |-> h, pix |-> <<>>, rest |-> color]

\* OverlayX without the halving
OverlayX_Mut(width) == CanvasW - width

\* `(3840 - width) / 2`
OverlayX(width) == (CanvasW - width) \div 2

\* `(2160 - height) / 2`
OverlayY(height) == (CanvasH - height) \div 2

\* imageops::overlay(bottom, top, x, y) of RGB buffers: every pixel of top
\* that falls inside bottom replaces the pixel under it
overlay(bottom, top, x, y) ==
    LET covered == { p \in { <<q[1] + x, q[2] + y>> : q \in Coords(top.width, top.height) } :
                        /\ 0 <= p[1] /\ p[1] < bottom.width
                        /\ 0 <= p[2] /\ p[2] < bottom.height }
    IN [bottom EXCEPT !.pix =
           [p \in (DOMAIN bottom.pix) \cup covered |->
               IF p \in covered THEN GetPixel(top, p[1] - x, p[2] - y)
               ELSE bottom.pix[p]]]

\* fn create(battery, color_scheme, image) -> RgbImage
create(bat, colors, img) ==
    overlay(Filled(CanvasW, CanvasH, colors.background),
            Output(bat, colors, img),
            OverlayX(img.width), OverlayY(img.height))

(***************************************************************************)
(* main: the change-detection loop.  pc is the statement the loop is at.   *)
(* polls, renders, applies and sleeps record what the loop has done:       *)
(* the snapshots polled, the poll index and snapshot of every create call, *)
(* the poll index of every set_from_memory call, the number of sleeps.     *)
(***************************************************************************)
\* `let mut previous = Battery { capacity: 0, status: NotCharging }`
InitialPrevious == Battery(0, "NotCharging")

\* the base image the loop runs with
LoopImage == ImageOf(1, 2, <<1, 0>>)

\* index of the iteration in progress (iterations count from 0)
Iteration == Len(polls) - 1

\* the state of main when it enters the loop
Init ==
    /\ pc = "poll"
    /\ image = LoopImage
    /\ color_scheme \in ColorSchemes
    /\ previous = InitialPrevious
    /\ battery = InitialPrevious
    /\ rendered = NoBuffer
    /\ wallpaper = NoBuffer
    /\ result = "None"
    /\ polls = <<>>
    /\ renders = <<>>
    /\ applies = <<>>
    /\ sleeps = 0

\* `let battery = Battery::new(&battery_path)`
Poll ==
    /\ pc = "poll"
    /\ Len(polls) < MaxPolls
    /\ \E b \in LoopBatteries :
          /\ battery' = b
          /\ polls' = Append(polls, b)
    /\ pc' = "compare"
    /\ UNCHANGED <<image, color_scheme, previous, rendered, wallpaper, result,
                   renders, applies, sleeps>>

\* Compare that renders in every iteration
Compare_AlwaysRender ==
    /\ pc = "compare"
    /\ pc' = "render"
    /\ UNCHANGED <<image, color_scheme, previous, battery, rendered, wallpaper,
                   result, polls, renders, applies, sleeps>>

\* Compare with the sleep inside the `if`: an unchanged snapshot polls again
Compare_SleepInsideIf ==
    /\ pc = "compare"
    /\ pc' = IF BatteryNe(battery, previous) THEN "render" ELSE "poll"
    /\ UNCHANGED <<image, color_scheme, previous, battery, rendered, wallpaper,
                   result, polls, renders, applies, sleeps>>

\* `if battery != previous`
Compare ==
    /\ pc = "compare"
    /\ pc' = IF BatteryNe(battery, previous) THEN "render" ELSE "sleep"
    /\ UNCHANGED <<image, color_scheme, previous, battery, rendered, wallpaper,
                   result, polls, renders, applies, sleeps>>

\* `let image = create(&battery, &color_scheme, &image)`
Render ==
    /\ pc = "render"
    /\ rendered' = create(battery, color_scheme, image)
    /\ renders' = Append(renders, [poll |-> Iteration, battery |-> battery])
    /\ pc' = "apply"
    /\ UNCHANGED <<image, color_scheme, previous, battery, wallpaper, result,
                   polls, applies, sleeps>>

\* wlrs::set_from_memory(image, screens) returns Ok
ApplyOk ==
    /\ pc = "apply"
    /\ result' = "Ok"
    /\ wallpaper' = rendered
    /\ applies' = Append(applies, Iteration)
    /\ pc' = "update"
    /\ UNCHANGED <<image, color_scheme, previous, battery, rendered, polls,
                   renders, sleeps>>

\* ApplyErr that ignores the error (`let _ = set_from_memory(..)`)
ApplyErr_Ignored ==
    /\ pc = "apply"
    /\ result' = "Err"
    /\ applies' = Append(applies, Iteration)
    /\ pc' = "update"
    /\ UNCHANGED <<image, color_scheme, previous, battery, rendered, wallpaper,
                   polls, renders, sleeps>>

\* wlrs::set_from_memory(image, screens) returns Err: `.expect(..)` panics
ApplyErr ==
    /\ pc = "apply"
    /\ result' = "Err"
    /\ applies' = Append(applies, Iteration)
    /\ pc' = "panicked"
    /\ UNCHANGED <<image, color_scheme, previous, battery, rendered, wallpaper,
                   polls, renders, sleeps>>

\* `previous = battery`
Update ==
    /\ pc = "update"
    /\ previous' = battery
    /\ pc' = "sleep"
    /\ UNCHANGED <<image, color_scheme, battery, rendered, wallpaper, result,
                   polls, renders, applies, sleeps>>

\* `thread::sleep(Duration::from_secs(args.time.unwrap_or(5)))`
Sleep ==
    /\ pc = "sleep"
    /\ sleeps' = sleeps + 1
    /\ pc' = "poll"
    /\ UNCHANGED <<image, color_scheme, previous, battery, rendered, wallpaper,
                   result, polls, renders, applies>>

Next == Poll \/ Compare \/ Render \/ ApplyOk \/ ApplyErr \/ Update \/ Sleep

Spec == Init /\ [][Next]_vars

(***************************************************************************)
(* create on its own: the state of main at the call of create, for every   *)
(* base image, color scheme and snapshot of the bounded sets.              *)
(***************************************************************************)
InitCreate ==
    /\ pc = "render"
    /\ image \in Images
    /\ color_scheme \in ColorSchemes
    /\ previous = InitialPrevious
    /\ battery \in CreateBatteries
    /\ rendered = NoBuffer
    /\ wallpaper = NoBuffer
    /\ result = "None"
    /\ polls = <<battery>>
    /\ renders = <<>>
    /\ applies = <<>>
    /\ sleeps = 0

NextCreate == Render

SpecCreate == InitCreate /\ [][NextCreate]_vars

(***************************************************************************)
(* Properties of the change-detection loop (specification Spec).           *)
(***************************************************************************)
RECURSIVE Changes(_, _, _)
\* the polls of ps, numbered from i, that differ from the running previous,
\* which starts as prev and becomes every poll that differs from it
Changes(ps, prev, i) ==
    IF ps = <<>> THEN <<>>
    ELSE IF Head(ps) # prev
         THEN <<[poll |-> i, battery |-> Head(ps)]>> \o Changes(Tail(ps), Head(ps), i + 1)
         ELSE Changes(Tail(ps), prev, i + 1)

\* the polls the loop has already decided to render or to skip
SettledPolls ==
    IF pc \in {"compare", "render"} THEN SubSeq(polls, 1, Len(polls) - 1) ELSE polls

\* the poll indices of the create calls
RenderPolls == [i \in 1 .. Len(renders) |-> renders[i].poll]

\* polls is <<s0, s0, s1, s1, s1, s0>> with s0 # s1
ExamplePolls ==
    /\ Len(polls) = 6
    /\ polls[2] = polls[1] /\ polls[3] # polls[1]
    /\ polls[4] = polls[3] /\ polls[5] = polls[3] /\ polls[6] = polls[1]

\* C1: a render+apply cycle runs in an iteration if and only if the polled
\* snapshot differs by value from the running previous, and it runs with the
\* polled snapshot: the create calls are exactly the changes of the poll
\* sequence, every apply belongs to one of them, and the polls
\* <<s0, s0, s1, s1, s1, s0>> (s0 not the initial previous) give the three
\* calls of the iterations 0, 2 and 5.
C1_RenderIffChanged ==
    /\ renders = Changes(SettledPolls, InitialPrevious, 0)
    /\ pc \notin {"compare", "render", "apply"} => applies = RenderPolls
    /\ pc = "apply" => applies = SubSeq(RenderPolls, 1, Len(renders) - 1)
    /\ (ExamplePolls /\ polls[1] # InitialPrevious /\ pc \in {"update", "sleep", "poll"})
          => (RenderPolls = <<0, 2, 5>> /\ applies = <<0, 2, 5>>)

C1_Witness ==
    /\ ExamplePolls /\ polls[1] # InitialPrevious /\ pc = "sleep"
    /\ Len(renders) = 3 /\ Len(applies) = 3 /\ result = "Ok"

\* the running previous before the iteration in progress
PreviousBefore ==
    IF Len(renders) > 1 THEN renders[Len(renders) - 1].battery ELSE InitialPrevious

C3_FirstPollRenders ==
    (Len(polls) >= 1 /\ pc \notin {"compare", "render"})
        => (Len(renders) >= 1 /\ renders[1].poll = 0)

\* C10: an iteration is poll, compare, (render, apply, update), sleep: a
\* render starts from the render statement and is the only render of its
\* iteration, an apply directly follows the render of the polled snapshot
\* and is the only apply of its iteration, previous is written only after
\* the apply and only to the polled snapshot, a skipped iteration leaves
\* previous alone, and every poll but the first follows the sleep that ends
\* the iteration before it.
C10_Sequential ==
    [][ /\ (renders' # renders) =>
              /\ pc = "compare" \/ pc = "render"
              /\ pc' = "apply"
              /\ renders' = Append(renders, [poll |-> Iteration, battery |-> battery])
              /\ \A i \in 1 .. Len(renders) : renders[i].poll < Iteration
              /\ rendered' = create(battery, color_scheme, image)
        /\ (pc' = "apply") => (renders' # renders)
        /\ (applies' # applies) =>
              /\ pc = "apply"
              /\ applies' = Append(applies, Iteration)
              /\ \A i \in 1 .. Len(applies) : applies[i] < Iteration
              /\ renders[Len(renders)] = [poll |-> Iteration, battery |-> battery]
              /\ rendered = create(battery, color_scheme, image)
        /\ (previous' # previous) =>
              /\ previous' = battery
              /\ Len(applies) >= 1 /\ applies[Len(applies)] = Iteration
              /\ wallpaper = rendered
              /\ pc' = "sleep"
        /\ (pc = "compare" /\ pc' = "sleep") => (previous' = previous /\ previous = battery)
        /\ (polls' # polls) => (sleeps = Len(polls) /\ pc = "poll")
        /\ (sleeps' # sleeps) => (sleeps' = Len(polls) /\ pc' = "poll")
        /\ (pc' = "poll") => (sleeps' = sleeps + 1)
      ]_vars

C10_Witness ==
    /\ pc = "poll" /\ Len(polls) >= 3 /\ sleeps = Len(polls)
    /\ Len(renders) >= 2 /\ Len(renders) < Len(polls) /\ applies = RenderPolls

(***************************************************************************)
(* Properties of create (specification SpecCreate).                        *)
(***************************************************************************)
\* the canvas pixel at the place of pixel p of the base image
CanvasAt(p) ==
    GetPixel(rendered, ((CanvasW - image.width) \div 2) + p[1],
                       ((CanvasH - image.height) \div 2) + p[2])

\* the pixels of the base image
ImageCoords == Coords(image.width, image.height)

\* the color the claims expect for a snapshot
ExpectedColor(status, capacity) ==
    CASE status = "Charging" -> color_scheme.charging
      [] status = "NotCharging" /\ capacity >= 30 -> color_scheme.default
      [] status = "NotCharging" /\ capacity < 30 -> color_scheme.low_battery

\* C4: the gauge color is charging for status Charging at every capacity,
\* default for NotCharging with capacity >= 30, low_battery for NotCharging
\* with capacity < 30; every recolored pixel of a rendered canvas has it.
\* (The capacities 0..100 are enumerated once for every color scheme, in
\* the states of the empty image.)
C4_ColorSelection ==
    /\ (image.width = 0 /\ image.height = 0) =>
          \A c \in 0 .. 100 : \A s \in BatteryStatus :
             SelectColor(s, c, color_scheme) = ExpectedColor(s, c)
    /\ pc = "apply" =>
          \A p \in ImageCoords :
             (image.pix[p] = SentinelPixel /\ CanvasAt(p) # <<143, 188, 187>>)
                => CanvasAt(p) = ExpectedColor(battery.status, battery.capacity)

C4_Witness ==
    /\ pc = "apply" /\ battery = Battery(30, "NotCharging")
    /\ \E p \in ImageCoords :
          image.pix[p] = SentinelPixel /\ CanvasAt(p) = color_scheme.default

\* the accent pixels the rendered canvas shows in the gauge color
RecoloredNow ==
    { p \in ImageCoords :
         /\ image.pix[p] = SentinelPixel
         /\ CanvasAt(p) = SelectColor(battery.status, battery.capacity, color_scheme) }

\* the accent pixels create recolors at capacity c, status NotCharging
RecoloredAt(c) ==
    LET out == Output(Battery(c, "NotCharging"), color_scheme, image)
    IN { p \in ImageCoords :
            /\ image.pix[p] = SentinelPixel
            /\ out.pix[p] = SelectColor("NotCharging", c, color_scheme) }

\* C5 (as the specification states it): with status NotCharging, the set
\* of recolored accent pixels at a capacity c2 below the rendered capacity
\* c1 contains the set recolored at c1.
C5_LowerCapacityEnlarges ==
    (pc = "apply" /\ battery.status = "NotCharging") =>
        \A c2 \in 0 .. 100 :
           c2 < battery.capacity => RecoloredNow \subseteq RecoloredAt(c2)

\* C5 (amended): with status NotCharging, the set of accent pixels
\* recolored at a capacity c2 below the rendered capacity c1 is contained
\* in the set recolored at c1, and the set recolored at a capacity above c1
\* contains it: decreasing the capacity shrinks the set or keeps it.
C5_LowerCapacityShrinks ==
    (pc = "apply" /\ battery.status = "NotCharging") =>
        \A c2 \in 0 .. 100 :
           /\ c2 < battery.capacity => RecoloredAt(c2) \subseteq RecoloredNow
           /\ c2 = battery.capacity => RecoloredAt(c2) = RecoloredNow
           /\ c2 > battery.capacity => RecoloredNow \subseteq RecoloredAt(c2)

C5_Witness ==
    /\ pc = "apply" /\ battery = Battery(30, "NotCharging")
    /\ RecoloredAt(0) # RecoloredNow
    /\ RecoloredNow # RecoloredAt(100)

\* C6: a base pixel with alpha below 255 is colors.background on the
\* canvas, whatever its RGB, its row, the capacity and the status.
C6_Transparency ==
    pc = "apply" =>
        \A p \in ImageCoords :
           image.pix[p][4] < 255 => CanvasAt(p) = color_scheme.background

C6_Witness ==
    /\ pc = "apply" /\ color_scheme = DefaultColors
    /\ \E p \in ImageCoords :
          /\ image.pix[p] = <<143, 188, 187, 254>>
          /\ F32IntGt(p[2], Threshold(image.height, battery.capacity))
          /\ CanvasAt(p) = <<40, 40, 40>>

\* C7: a fully opaque base pixel other than the accent color keeps its RGB
\* value on the canvas, for every capacity, status and color scheme.
C7_Passthrough ==
    pc = "apply" =>
        \A p \in ImageCoords :
           (image.pix[p][4] = 255 /\ image.pix[p] # <<143, 188, 187, 255>>)
              => CanvasAt(p) = <<image.pix[p][1], image.pix[p][2], image.pix[p][3]>>

C7_Witness ==
    /\ pc = "apply" /\ battery.capacity = 100
    /\ \E p \in ImageCoords :
          /\ image.pix[p] = <<143, 188, 186, 255>>
          /\ p[2] >= 1
          /\ CanvasAt(p) = <<143, 188, 186>>

\* C8: the canvas is 3840 x 2160, the recolored image lies inside it with
\* its top-left corner at ((3840-W) div 2, (2160-H) div 2), canvas pixel
\* (x0+i, y0+j) is recolored pixel (i, j), every other canvas pixel is
\* colors.background, and an empty image leaves the canvas all background.
\* The corner keeps an image of every size up to the canvas inside it (the
\* sizes are enumerated once, in the states of the empty image).
C8_Compositing ==
    pc = "apply" =>
        LET W  == image.width
            H  == image.height
            x0 == (3840 - W) \div 2
            y0 == (2160 - H) \div 2
            out == Output(battery, color_scheme, image)
            rect == { <<x0 + p[1], y0 + p[2]>> : p \in Coords(W, H) }
        IN /\ rendered.width = 3840 /\ rendered.height = 2160
           /\ x0 >= 0 /\ y0 >= 0 /\ x0 + W <= 3840 /\ y0 + H <= 2160
           /\ \A p \in Coords(W, H) :
                 GetPixel(rendered, x0 + p[1], y0 + p[2]) = out.pix[p]
           /\ rendered.rest = color_scheme.background
           /\ \A q \in (DOMAIN rendered.pix) \ rect :
                 rendered.pix[q] = color_scheme.background
           /\ (W = 0 \/ H = 0) => rendered = Filled(3840, 2160, color_scheme.background)
           /\ (W = 0 /\ H = 0) =>
                 /\ \A w \in 0 .. 3840 :
                       /\ OverlayX(w) >= 0 /\ OverlayX(w) + w <= 3840
                       /\ 3840 - w - 2 * OverlayX(w) \in {0, 1}
                 /\ \A h \in 0 .. 2160 :
                       /\ OverlayY(h) >= 0 /\ OverlayY(h) + h <= 2160
                       /\ 2160 - h - 2 * OverlayY(h) \in {0, 1}

C8_Witness ==
    /\ pc = "apply" /\ image.width = 1 /\ image.height = MaxH
    /\ color_scheme = DefaultColors /\ battery.capacity = 100
    /\ Cardinality(DOMAIN rendered.pix) = MaxH
    /\ \E q \in DOMAIN rendered.pix : rendered.pix[q] # <<40, 40, 40>>

\* C9: an opaque accent pixel in row y of an image of height H is recolored
\* to the gauge color exactly when 100*y > H*(100 - capacity), and keeps
\* its RGB value otherwise.
C9_ExactThreshold ==
    pc = "apply" =>
        \A p \in ImageCoords :
           image.pix[p] = SentinelPixel =>
              CanvasAt(p) =
                 IF 100 * p[2] > image.height * (100 - battery.capacity)
                 THEN ExpectedColor(battery.status, battery.capacity)
                 ELSE <<143, 188, 187>>

====
